---- MODULE Spec2Model ----
(***************************************************************************)
(* Model of src/error.rs of as-srt: the result interpreter handle_result,  *)
(* the primary retrieval get_last_error, and the three conversions         *)
(*   SrtError        <- srt::SRT_ERRNO                                      *)
(*   SrtRejectReason <- srt::SRT_REJECT_REASON                              *)
(*   io::Error       <- SrtError                                            *)
(* The protocol library is modelled by what this file sees of it: a return *)
(* code, a thread-local last-error slot and a reject-reason slot.          *)
(***************************************************************************)
EXTENDS Integers, FiniteSets, Sequences, TLC

(***************************************************************************)
(* Bounds of the model.                                                    *)
(***************************************************************************)
\* threads of SpecThreads are 1..NumThreads
NumThreads == 2
\* success values handed to handle_result are 0..MaxValue
MaxValue == 1
\* return codes are -RetSpan..RetSpan
RetSpan == 7
\* numeric codes reach Margin below the lowest and above the highest named code
Margin == 1
\* slot reads counted per thread since its last protocol call
MaxReads == 2

(***************************************************************************)
(* srt::SRT_ERRNO: the numeric codes named by the arms of                  *)
(* From<SRT_ERRNO> for SrtError (major * 1000 + minor, as in srt.h).       *)
(***************************************************************************)
SRT_EUNKNOWN == -1
SRT_SUCCESS == 0
SRT_ECONNSETUP == 1000
SRT_ENOSERVER == 1001
SRT_ECONNREJ == 1002
SRT_ESOCKFAIL == 1003
SRT_ESECFAIL == 1004
SRT_ESCLOSED == 1005
SRT_ECONNFAIL == 2000
SRT_ECONNLOST == 2001
SRT_ENOCONN == 2002
SRT_ERESOURCE == 3000
SRT_ETHREAD == 3001
SRT_ENOBUF == 3002
SRT_ESYSOBJ == 3003
SRT_EFILE == 4000
SRT_EINVRDOFF == 4001
SRT_ERDPERM == 4002
SRT_EINVWROFF == 4003
SRT_EWRPERM == 4004
SRT_EINVOP == 5000
SRT_EBOUNDSOCK == 5001
SRT_ECONNSOCK == 5002
SRT_EINVPARAM == 5003
SRT_EINVSOCK == 5004
SRT_EUNBOUNDSOCK == 5005
SRT_ENOLISTEN == 5006
SRT_ERDVNOSERV == 5007
SRT_ERDVUNBOUND == 5008
SRT_EINVALMSGAPI == 5009
SRT_EINVALBUFFERAPI == 5010
SRT_EDUPLISTEN == 5011
SRT_ELARGEMSG == 5012
SRT_EINVPOLLID == 5013
SRT_EPOLLEMPTY == 5014
SRT_EASYNCFAIL == 6000
SRT_EASYNCSND == 6001
SRT_EASYNCRCV == 6002
SRT_ETIMEOUT == 6003
SRT_ECONGEST == 6004
SRT_EPEERERR == 7000

\* the codes of the library's error enumeration, as this file names them
SRT_ERRNO_Values ==
  { SRT_EUNKNOWN, SRT_SUCCESS, SRT_ECONNSETUP, SRT_ENOSERVER, SRT_ECONNREJ,
    SRT_ESOCKFAIL, SRT_ESECFAIL, SRT_ESCLOSED, SRT_ECONNFAIL, SRT_ECONNLOST,
    SRT_ENOCONN, SRT_ERESOURCE, SRT_ETHREAD, SRT_ENOBUF, SRT_ESYSOBJ, SRT_EFILE,
    SRT_EINVRDOFF, SRT_ERDPERM, SRT_EINVWROFF, SRT_EWRPERM, SRT_EINVOP,
    SRT_EBOUNDSOCK, SRT_ECONNSOCK, SRT_EINVPARAM, SRT_EINVSOCK,
    SRT_EUNBOUNDSOCK, SRT_ENOLISTEN, SRT_ERDVNOSERV, SRT_ERDVUNBOUND,
    SRT_EINVALMSGAPI, SRT_EINVALBUFFERAPI, SRT_EDUPLISTEN, SRT_ELARGEMSG,
    SRT_EINVPOLLID, SRT_EPOLLEMPTY, SRT_EASYNCFAIL, SRT_EASYNCSND,
    SRT_EASYNCRCV, SRT_ETIMEOUT, SRT_ECONGEST, SRT_EPEERERR }

(***************************************************************************)
(* srt::SRT_REJECT_REASON: the codes named by the arms of                  *)
(* From<SRT_REJECT_REASON> for SrtRejectReason.                            *)
(***************************************************************************)
SRT_REJ_UNKNOWN == 0
SRT_REJ_SYSTEM == 1
SRT_REJ_PEER == 2
SRT_REJ_RESOURCE == 3
SRT_REJ_ROGUE == 4
SRT_REJ_BACKLOG == 5
SRT_REJ_IPE == 6
SRT_REJ_CLOSE == 7
SRT_REJ_VERSION == 8
SRT_REJ_RDVCOOKIE == 9
SRT_REJ_BADSECRET == 10
SRT_REJ_UNSECURE == 11
SRT_REJ_MESSAGEAPI == 12
SRT_REJ_CONGESTION == 13
SRT_REJ_FILTER == 14
SRT_REJ_GROUP == 15
SRT_REJ_TIMEOUT == 16

SRT_REJECT_REASON_Values ==
  { SRT_REJ_UNKNOWN, SRT_REJ_SYSTEM, SRT_REJ_PEER, SRT_REJ_RESOURCE,
    SRT_REJ_ROGUE, SRT_REJ_BACKLOG, SRT_REJ_IPE, SRT_REJ_CLOSE,
    SRT_REJ_VERSION, SRT_REJ_RDVCOOKIE, SRT_REJ_BADSECRET, SRT_REJ_UNSECURE,
    SRT_REJ_MESSAGEAPI, SRT_REJ_CONGESTION, SRT_REJ_FILTER, SRT_REJ_GROUP,
    SRT_REJ_TIMEOUT }

(***************************************************************************)
(* The value spaces the inputs are drawn from.                             *)
(***************************************************************************)
Threads == 1..NumThreads
\* the calling thread of Spec
MainThread == CHOOSE t \in Threads : TRUE
Values == 0..MaxValue
ReturnCodes == (0 - RetSpan)..RetSpan
ErrnoRange == (SRT_EUNKNOWN - Margin)..(SRT_EPEERERR + Margin)
RejectRange == (SRT_REJ_UNKNOWN - Margin)..(SRT_REJ_TIMEOUT + Margin)
\* slot contents of Spec: every named code and codes outside the table
SlotErrnos == SRT_ERRNO_Values \cup {SRT_EUNKNOWN - Margin, SRT_EPEERERR + Margin}
\* slot contents of SpecThreads: two codes of the spec's scenarios and one
\* code outside the table
ThreadErrnos == {SRT_EWRPERM, SRT_ETIMEOUT, SRT_EPEERERR + Margin}

(***************************************************************************)
(* enum SrtRejectReason and enum SrtError.  An SrtError value is a record  *)
(* of its variant and its payload; NoPayload marks a unit variant.         *)
(***************************************************************************)
SrtRejectReason ==
  { "Unknown", "System", "Peer", "Resource", "Rogue", "Backlog", "IPE",
    "Close", "Version", "RdvCookie", "BadSecret", "Unsecure", "MessageAPI",
    "Congestion", "Filter", "Group", "Timeout" }

NoPayload == "-"

UnitVariants ==
  { "Unknown", "Success", "ConnSetup", "NoServer", "SockFail", "SecFail",
    "Closed", "ConnFail", "ConnLost", "NoConn", "Resource", "Thread", "NoBuf",
    "SysObj", "File", "InvRdOff", "RdPerm", "InvWrOff", "WrPerm", "InvOp",
    "BoundSock", "ConnSock", "InvParam", "InvSock", "UnboundSock", "NoListen",
    "RdvNoServ", "RdvUnbound", "InvalMsgApi", "InvalBufferApi", "DupListen",
    "LargeMsg", "InvPollId", "PollEmpty", "AsyncFail", "AsyncSnd", "AsyncRcv",
    "Timeout", "Congest", "PeerErr" }

Unit(v) == [tag |-> v, reason |-> NoPayload]
ConnRej(r) == [tag |-> "ConnRej", reason |-> r]

SrtError == {Unit(v) : v \in UnitVariants} \cup {ConnRej(r) : r \in SrtRejectReason}

\* unreachable!(msg): the conversion panics instead of returning a value
Unreachable(msg) == [tag |-> "unreachable!", reason |-> msg]
Panicked(v) == v.tag = "unreachable!"

(***************************************************************************)
(* impl From<srt::SRT_ERRNO> for SrtError: one arm per named code, in the  *)
(* order of the source, and the catch-all arm that panics.                 *)
(***************************************************************************)
ErrnoMatch(err_no) ==
  CASE err_no = SRT_EUNKNOWN -> Unit("Unknown")
    [] err_no = SRT_SUCCESS -> Unit("Success")
    [] err_no = SRT_ECONNSETUP -> Unit("ConnSetup")
    [] err_no = SRT_ENOSERVER -> Unit("NoServer")
    [] err_no = SRT_ECONNREJ -> ConnRej("Unknown")
    [] err_no = SRT_ESOCKFAIL -> Unit("SockFail")
    [] err_no = SRT_ESECFAIL -> Unit("SecFail")
    [] err_no = SRT_ESCLOSED -> Unit("Closed")
    [] err_no = SRT_ECONNFAIL -> Unit("ConnFail")
    [] err_no = SRT_ECONNLOST -> Unit("ConnLost")
    [] err_no = SRT_ENOCONN -> Unit("NoConn")
    [] err_no = SRT_ERESOURCE -> Unit("Resource")
    [] err_no = SRT_ETHREAD -> Unit("Thread")
    [] err_no = SRT_ENOBUF -> Unit("NoBuf")
    [] err_no = SRT_ESYSOBJ -> Unit("SysObj")
    [] err_no = SRT_EFILE -> Unit("File")
    [] err_no = SRT_EINVRDOFF -> Unit("InvRdOff")
    [] err_no = SRT_ERDPERM -> Unit("RdPerm")
    [] err_no = SRT_EINVWROFF -> Unit("InvWrOff")
    [] err_no = SRT_EWRPERM -> Unit("WrPerm")
    [] err_no = SRT_EINVOP -> Unit("InvOp")
    [] err_no = SRT_EBOUNDSOCK -> Unit("BoundSock")
    [] err_no = SRT_ECONNSOCK -> Unit("ConnSock")
    [] err_no = SRT_EINVPARAM -> Unit("InvParam")
    [] err_no = SRT_EINVSOCK -> Unit("InvSock")
    [] err_no = SRT_EUNBOUNDSOCK -> Unit("UnboundSock")
    [] err_no = SRT_ENOLISTEN -> Unit("NoListen")
    [] err_no = SRT_ERDVNOSERV -> Unit("RdvNoServ")
    [] err_no = SRT_ERDVUNBOUND -> Unit("RdvUnbound")
    [] err_no = SRT_EINVALMSGAPI -> Unit("InvalMsgApi")
    [] err_no = SRT_EINVALBUFFERAPI -> Unit("InvalBufferApi")
    [] err_no = SRT_EDUPLISTEN -> Unit("DupListen")
    [] err_no = SRT_ELARGEMSG -> Unit("LargeMsg")
    [] err_no = SRT_EINVPOLLID -> Unit("InvPollId")
    [] err_no = SRT_EPOLLEMPTY -> Unit("PollEmpty")
    [] err_no = SRT_EASYNCFAIL -> Unit("AsyncFail")
    [] err_no = SRT_EASYNCSND -> Unit("AsyncSnd")
    [] err_no = SRT_EASYNCRCV -> Unit("AsyncRcv")
    [] err_no = SRT_ETIMEOUT -> Unit("Timeout")
    [] err_no = SRT_ECONGEST -> Unit("Congest")
    [] err_no = SRT_EPEERERR -> Unit("PeerErr")
    [] OTHER -> Unreachable("unrecognized error no")

(***************************************************************************)
(* impl From<srt::SRT_REJECT_REASON> for SrtRejectReason.  The result is   *)
(* wrapped as an SrtError-shaped record so that a panic is representable.  *)
(***************************************************************************)
RejectMatch(reject_reason) ==
  CASE reject_reason = SRT_REJ_UNKNOWN -> [tag |-> "Unknown", reason |-> NoPayload]
    [] reject_reason = SRT_REJ_SYSTEM -> [tag |-> "System", reason |-> NoPayload]
    [] reject_reason = SRT_REJ_PEER -> [tag |-> "Peer", reason |-> NoPayload]
    [] reject_reason = SRT_REJ_RESOURCE -> [tag |-> "Resource", reason |-> NoPayload]
    [] reject_reason = SRT_REJ_ROGUE -> [tag |-> "Rogue", reason |-> NoPayload]
    [] reject_reason = SRT_REJ_BACKLOG -> [tag |-> "Backlog", reason |-> NoPayload]
    [] reject_reason = SRT_REJ_IPE -> [tag |-> "IPE", reason |-> NoPayload]
    [] reject_reason = SRT_REJ_CLOSE -> [tag |-> "Close", reason |-> NoPayload]
    [] reject_reason = SRT_REJ_VERSION -> [tag |-> "Version", reason |-> NoPayload]
    [] reject_reason = SRT_REJ_RDVCOOKIE -> [tag |-> "RdvCookie", reason |-> NoPayload]
    [] reject_reason = SRT_REJ_BADSECRET -> [tag |-> "BadSecret", reason |-> NoPayload]
    [] reject_reason = SRT_REJ_UNSECURE -> [tag |-> "Unsecure", reason |-> NoPayload]
    [] reject_reason = SRT_REJ_MESSAGEAPI -> [tag |-> "MessageAPI", reason |-> NoPayload]
    [] reject_reason = SRT_REJ_CONGESTION -> [tag |-> "Congestion", reason |-> NoPayload]
    [] reject_reason = SRT_REJ_FILTER -> [tag |-> "Filter", reason |-> NoPayload]
    [] reject_reason = SRT_REJ_GROUP -> [tag |-> "Group", reason |-> NoPayload]
    [] reject_reason = SRT_REJ_TIMEOUT -> [tag |-> "Timeout", reason |-> NoPayload]
    [] OTHER -> Unreachable("unrecognized SRT_REJECT_REASON")

(***************************************************************************)
(* impl From<SrtError> for io::Error: the match on e that picks the        *)
(* ErrorKind.  The match is exhaustive over enum SrtError, so it has no    *)
(* catch-all arm; ConnRej(_) ignores the payload.                          *)
(***************************************************************************)
ErrorKindMatch(e) ==
  CASE e.tag = "Unknown" -> "Other"
    [] e.tag = "Success" -> "Other"
    [] e.tag = "ConnSetup" -> "ConnectionRefused"
    [] e.tag = "NoServer" -> "ConnectionRefused"
    [] e.tag = "ConnRej" -> "ConnectionRefused"
    [] e.tag = "SockFail" -> "AddrNotAvailable"
    [] e.tag = "SecFail" -> "ConnectionRefused"
    [] e.tag = "ConnFail" -> "ConnectionRefused"
    [] e.tag = "Closed" -> "AddrNotAvailable"
    [] e.tag = "ConnLost" -> "ConnectionAborted"
    [] e.tag = "NoConn" -> "NotConnected"
    [] e.tag = "Resource" -> "Other"
    [] e.tag = "Thread" -> "Other"
    [] e.tag = "NoBuf" -> "Other"
    [] e.tag = "SysObj" -> "Other"
    [] e.tag = "File" -> "NotFound"
    [] e.tag = "InvRdOff" -> "InvalidInput"
    [] e.tag = "RdPerm" -> "PermissionDenied"
    [] e.tag = "InvWrOff" -> "InvalidInput"
    [] e.tag = "WrPerm" -> "PermissionDenied"
    [] e.tag = "InvOp" -> "InvalidInput"
    [] e.tag = "BoundSock" -> "AddrInUse"
    [] e.tag = "ConnSock" -> "AddrInUse"
    [] e.tag = "InvParam" -> "InvalidInput"
    [] e.tag = "InvSock" -> "AddrNotAvailable"
    [] e.tag = "UnboundSock" -> "NotConnected"
    [] e.tag = "NoListen" -> "InvalidInput"
    [] e.tag = "RdvNoServ" -> "ConnectionRefused"
    [] e.tag = "RdvUnbound" -> "ConnectionRefused"
    [] e.tag = "InvalMsgApi" -> "InvalidInput"
    [] e.tag = "InvalBufferApi" -> "InvalidInput"
    [] e.tag = "DupListen" -> "AddrInUse"
    [] e.tag = "LargeMsg" -> "Other"
    [] e.tag = "InvPollId" -> "AddrNotAvailable"
    [] e.tag = "PollEmpty" -> "Other"
    [] e.tag = "AsyncFail" -> "WouldBlock"
    [] e.tag = "AsyncSnd" -> "WouldBlock"
    [] e.tag = "AsyncRcv" -> "WouldBlock"
    [] e.tag = "Timeout" -> "TimedOut"
    [] e.tag = "Congest" -> "Other"
    [] e.tag = "PeerErr" -> "Other"

(***************************************************************************)
(* State.                                                                  *)
(*   lastError[t]  the protocol library's thread-local last-error slot     *)
(*   rejectReason  the connection's reject-reason slot                     *)
(*   pc[t]         where thread t stands: "idle", "returned" (a protocol   *)
(*                 call has returned), "handled", "panicked"               *)
(*   pending[t]    the return code thread t holds, {} before any call      *)
(*   okv[t]        the success value of t's last handle_result call        *)
(*   result[t]     what t's last call into this file produced              *)
(*   seen[t]       the errors t has retrieved since its last protocol call *)
(*   nreads[t]     the slot reads of t since its last protocol call        *)
(*   failCode[t]   the code that the call behind pending[t] stored         *)
(*   intervened[t] t made another protocol call while holding pending[t]   *)
(*   conv          the last application of one of the three conversions    *)
(***************************************************************************)
VARIABLES lastError, rejectReason, pc, pending, okv, result, seen, nreads,
          failCode, intervened, conv

vars == <<lastError, rejectReason, pc, pending, okv, result, seen, nreads,
          failCode, intervened, conv>>

threadVars == <<lastError, rejectReason, pc, pending, okv, result, seen,
                nreads, failCode, intervened>>

NoError == [tag |-> NoPayload, reason |-> NoPayload]

NoResult ==
  [op |-> "none", kind |-> "None", val |-> {}, err |-> NoError, msg |-> "",
   code |-> {}, readSlot |-> FALSE]

NoConv == [fn |-> "none", num |-> {}, arg |-> NoError, out |-> NoError, kind |-> ""]

(***************************************************************************)
(* The conversions as the impls define them.                               *)
(***************************************************************************)
\* a table that has lost its last arm: SRT_EPEERERR falls to the catch-all
SrtErrorFromGap(err_no) ==
  IF err_no = SRT_EPEERERR THEN Unreachable("unrecognized error no")
  ELSE ErrnoMatch(err_no)

\* a catch-all arm that returns the Unknown variant instead of panicking
SrtErrorFromDefault(err_no) ==
  IF Panicked(ErrnoMatch(err_no)) THEN Unit("Unknown") ELSE ErrnoMatch(err_no)

\* fn from(err_no: srt::SRT_ERRNO) -> SrtError
SrtErrorFrom(err_no) == ErrnoMatch(err_no)

\* a catch-all arm that returns Unknown instead of panicking
SrtRejectReasonFromLax(reject_reason) ==
  IF Panicked(RejectMatch(reject_reason))
  THEN [tag |-> "Unknown", reason |-> NoPayload]
  ELSE RejectMatch(reject_reason)

\* fn from(reject_reason: srt::SRT_REJECT_REASON) -> SrtRejectReason
SrtRejectReasonFrom(reject_reason) == RejectMatch(reject_reason)

\* a projection that lets the payload of ConnRej refine the kind
IoErrorFromRefined(e) ==
  [kind |-> IF e.tag = "ConnRej" /\ e.reason = "Timeout" THEN "TimedOut"
            ELSE ErrorKindMatch(e),
   inner |-> e]

\* fn from(e: SrtError) -> io::Error: io::Error::new(match e {..}, e)
IoErrorFrom(e) == [kind |-> ErrorKindMatch(e), inner |-> e]

(***************************************************************************)
(* get_last_error and handle_result, run by thread t.                      *)
(***************************************************************************)
\* a slot shared by all threads instead of one per thread
srt_getlasterror_shared(t) == lastError[MainThread]

\* srt::srt_getlasterror(&mut _errno_loc): the calling thread's slot
srt_getlasterror(t) == lastError[t]

\* a retrieval that also clears the slot, as a call of srt_clearlasterror would
SlotAfterReadCleared(t) == [lastError EXCEPT ![t] = SRT_SUCCESS]

\* the slots after get_last_error ran on thread t: its one foreign call is the
\* non-clearing accessor, so every slot is as before
SlotAfterRead(t) == lastError

\* a retrieval that fills the payload of ConnRej from the reject-reason slot
get_last_error_refined(t) ==
  IF srt_getlasterror(t) = SRT_ECONNREJ
  THEN ConnRej(SrtRejectReasonFrom(rejectReason).tag)
  ELSE SrtErrorFrom(srt_getlasterror(t))

\* pub fn get_last_error() -> SrtError
get_last_error(t) == SrtErrorFrom(srt_getlasterror(t))

\* what a caller of get_last_error holds afterwards: the error, or a panic
Retrieved(op, wrap, e) ==
  IF Panicked(e)
  THEN [op |-> op, kind |-> "Panic", val |-> {}, err |-> NoError,
        msg |-> e.reason, code |-> {}, readSlot |-> TRUE]
  ELSE [op |-> op, kind |-> wrap, val |-> {}, err |-> e, msg |-> "",
        code |-> {}, readSlot |-> TRUE]

\* an interpreter that drops the success value
handle_result_default(ok, return_code, t) ==
  CASE return_code = 0 ->
         [op |-> "handle_result", kind |-> "Ok", val |-> {0}, err |-> NoError,
          msg |-> "", code |-> {}, readSlot |-> FALSE]
    [] return_code = -1 -> Retrieved("handle_result", "Err", get_last_error(t))
    [] OTHER ->
         [op |-> "handle_result", kind |-> "Panic", val |-> {}, err |-> NoError,
          msg |-> "unrecognized return code {}", code |-> {return_code},
          readSlot |-> FALSE]

\* an interpreter that reports Unknown without consulting the slot
handle_result_blind(ok, return_code, t) ==
  CASE return_code = 0 ->
         [op |-> "handle_result", kind |-> "Ok", val |-> {ok}, err |-> NoError,
          msg |-> "", code |-> {}, readSlot |-> FALSE]
    [] return_code = -1 ->
         [op |-> "handle_result", kind |-> "Err", val |-> {},
          err |-> Unit("Unknown"), msg |-> "", code |-> {}, readSlot |-> FALSE]
    [] OTHER ->
         [op |-> "handle_result", kind |-> "Panic", val |-> {}, err |-> NoError,
          msg |-> "unrecognized return code {}", code |-> {return_code},
          readSlot |-> FALSE]

\* an interpreter that takes every negative return code for a failure
handle_result_negative(ok, return_code, t) ==
  CASE return_code = 0 ->
         [op |-> "handle_result", kind |-> "Ok", val |-> {ok}, err |-> NoError,
          msg |-> "", code |-> {}, readSlot |-> FALSE]
    [] return_code < 0 -> Retrieved("handle_result", "Err", get_last_error(t))
    [] OTHER ->
         [op |-> "handle_result", kind |-> "Panic", val |-> {}, err |-> NoError,
          msg |-> "unrecognized return code {}", code |-> {return_code},
          readSlot |-> FALSE]

\* pub fn handle_result<T>(ok: T, return_code: i32) -> Result<T, SrtError>
handle_result(ok, return_code, t) ==
  CASE return_code = 0 ->
         [op |-> "handle_result", kind |-> "Ok", val |-> {ok}, err |-> NoError,
          msg |-> "", code |-> {}, readSlot |-> FALSE]
    [] return_code = -1 -> Retrieved("handle_result", "Err", get_last_error(t))
    [] OTHER ->
         [op |-> "handle_result", kind |-> "Panic", val |-> {}, err |-> NoError,
          msg |-> "unrecognized return code {}", code |-> {return_code},
          readSlot |-> FALSE]

(***************************************************************************)
(* The protocol library as this file sees it.  lib.errnos are the codes a  *)
(* failing call may store, lib.rcs the return codes, lib.rejects the       *)
(* reject reasons a rejected connect may record.                           *)
(***************************************************************************)
LibFull ==
  [errnos |-> SlotErrnos, rcs |-> ReturnCodes, rejects |-> SRT_REJECT_REASON_Values]

LibThreads == [errnos |-> ThreadErrnos, rcs |-> {0, -1}, rejects |-> {}]

\* what one protocol call can do: return rc; a failing call (rc = -1) stores
\* a code in the caller's slot; a rejected connect also records its reason
CallOutcomes(lib) ==
  {[rc |-> rc, stored |-> {}, reject |-> {}] : rc \in lib.rcs \ {-1}}
    \cup {[rc |-> -1, stored |-> {c}, reject |-> {}] :
            c \in lib.errnos \ {SRT_ECONNREJ}}
    \cup {[rc |-> -1, stored |-> {c}, reject |-> {rr}] :
            c \in lib.errnos \cap {SRT_ECONNREJ}, rr \in lib.rejects}

\* the slots after a call of thread t with outcome o
SlotAfterCall(t, o) ==
  IF o.stored = {} THEN lastError
  ELSE [lastError EXCEPT ![t] = CHOOSE c \in o.stored : TRUE]

RejectAfterCall(o) ==
  IF o.reject = {} THEN rejectReason ELSE CHOOSE rr \in o.reject : TRUE

Init ==
  /\ lastError = [t \in Threads |-> SRT_SUCCESS]
  /\ rejectReason = SRT_REJ_UNKNOWN
  /\ pc = [t \in Threads |-> "idle"]
  /\ pending = [t \in Threads |-> {}]
  /\ okv = [t \in Threads |-> {}]
  /\ result = [t \in Threads |-> NoResult]
  /\ seen = [t \in Threads |-> {}]
  /\ nreads = [t \in Threads |-> 0]
  /\ failCode = [t \in Threads |-> {}]
  /\ intervened = [t \in Threads |-> FALSE]
  /\ conv = NoConv

\* thread t runs a protocol operation and keeps its return code
ProtocolCall(t, lib) ==
  /\ pc[t] \in {"idle", "handled"}
  /\ \E o \in CallOutcomes(lib) :
       /\ lastError' = SlotAfterCall(t, o)
       /\ rejectReason' = RejectAfterCall(o)
       /\ pending' = [pending EXCEPT ![t] = {o.rc}]
       /\ failCode' = [failCode EXCEPT ![t] = o.stored]
  /\ pc' = [pc EXCEPT ![t] = "returned"]
  /\ result' = [result EXCEPT ![t] = NoResult]
  /\ okv' = [okv EXCEPT ![t] = {}]
  /\ seen' = [seen EXCEPT ![t] = {}]
  /\ nreads' = [nreads EXCEPT ![t] = 0]
  /\ intervened' = [intervened EXCEPT ![t] = FALSE]
  /\ UNCHANGED conv

\* thread t runs another protocol operation before it interprets pending[t]
InterveningCall(t, lib) ==
  /\ pc[t] = "returned"
  /\ ~intervened[t]
  /\ \E o \in CallOutcomes(lib) :
       /\ lastError' = SlotAfterCall(t, o)
       /\ rejectReason' = RejectAfterCall(o)
  /\ intervened' = [intervened EXCEPT ![t] = TRUE]
  /\ UNCHANGED <<pc, pending, okv, result, seen, nreads, failCode, conv>>

\* thread t calls handle_result(x, pending[t]) with some x of values
HandleResult(t, values) ==
  /\ pc[t] \in {"returned", "handled"}
  /\ \E x \in values, rc \in pending[t] :
       LET r == handle_result(x, rc, t) IN
         /\ r.readSlot => nreads[t] < MaxReads
         /\ result' = [result EXCEPT ![t] = r]
         /\ okv' = [okv EXCEPT ![t] = {x}]
         /\ pc' = [pc EXCEPT ![t] = IF r.kind = "Panic" THEN "panicked" ELSE "handled"]
         /\ lastError' = IF r.readSlot THEN SlotAfterRead(t) ELSE lastError
         /\ nreads' = [nreads EXCEPT ![t] = IF r.readSlot THEN @ + 1 ELSE @]
         /\ seen' = [seen EXCEPT ![t] =
                       IF r.readSlot THEN @ \cup {[err |-> r.err, msg |-> r.msg]} ELSE @]
  /\ UNCHANGED <<rejectReason, pending, failCode, intervened, conv>>

\* thread t calls get_last_error() directly
GetLastError(t) ==
  /\ pc[t] # "panicked"
  /\ nreads[t] < MaxReads
  /\ LET r == Retrieved("get_last_error", "SrtError", get_last_error(t)) IN
       /\ result' = [result EXCEPT ![t] = r]
       /\ pc' = [pc EXCEPT ![t] = IF r.kind = "Panic" THEN "panicked" ELSE @]
       /\ seen' = [seen EXCEPT ![t] = @ \cup {[err |-> r.err, msg |-> r.msg]}]
  /\ lastError' = SlotAfterRead(t)
  /\ nreads' = [nreads EXCEPT ![t] = @ + 1]
  /\ UNCHANGED <<rejectReason, pending, okv, failCode, intervened, conv>>

(***************************************************************************)
(* The conversions applied to inputs drawn from their ranges.              *)
(***************************************************************************)
ConvertErrno ==
  /\ conv = NoConv
  /\ \E n \in ErrnoRange :
       conv' = [fn |-> "SrtError::from", num |-> {n}, arg |-> NoError,
                out |-> SrtErrorFrom(n), kind |-> ""]
  /\ UNCHANGED threadVars

ConvertReject ==
  /\ conv = NoConv
  /\ \E n \in RejectRange :
       conv' = [fn |-> "SrtRejectReason::from", num |-> {n}, arg |-> NoError,
                out |-> SrtRejectReasonFrom(n), kind |-> ""]
  /\ UNCHANGED threadVars

ConvertIo ==
  /\ conv = NoConv
  /\ \E e \in SrtError :
       conv' = [fn |-> "io::Error::from", num |-> {}, arg |-> e,
                out |-> IoErrorFrom(e).inner, kind |-> IoErrorFrom(e).kind]
  /\ UNCHANGED threadVars

(***************************************************************************)
(* Specifications.                                                         *)
(*   Spec         one thread, every return code, every slot content        *)
(*   SpecThreads  NumThreads threads, each with its own slot               *)
(*   SpecPure     the three conversions over their input ranges            *)
(***************************************************************************)
Next ==
  \/ ProtocolCall(MainThread, LibFull)
  \/ HandleResult(MainThread, Values)
  \/ GetLastError(MainThread)

Spec == Init /\ [][Next]_vars

NextThreads ==
  \E t \in Threads :
    \/ ProtocolCall(t, LibThreads)
    \/ InterveningCall(t, LibThreads)
    \/ HandleResult(t, {0})

SpecThreads == Init /\ [][NextThreads]_vars

NextPure == ConvertErrno \/ ConvertReject \/ ConvertIo

SpecPure == Init /\ [][NextPure]_vars

(***************************************************************************)
(* Properties.                                                             *)
(***************************************************************************)

\* C1: handle_result(x, 0) returns Ok(x) with exactly the supplied x, whatever
\* the caller's last-error slot holds; the call neither reads the slot nor
\* changes it.
C1_OkReturnsSuppliedValue ==
  [][\A t \in Threads :
       ( /\ pending[t] = {0}
         /\ result'[t].op = "handle_result"
         /\ (result'[t] # result[t] \/ okv'[t] # okv[t]) )
       => /\ result'[t].kind = "Ok"
          /\ result'[t].val = okv'[t]
          /\ okv'[t] # {}
          /\ ~result'[t].readSlot
          /\ nreads'[t] = nreads[t]
          /\ lastError' = lastError]_vars

\* C1 happens: Ok(1) is returned while the slot holds the timeout code
C1_Witness ==
  \E t \in Threads :
    /\ result[t].op = "handle_result"
    /\ pending[t] = {0}
    /\ result[t].kind = "Ok"
    /\ result[t].val = {1}
    /\ lastError[t] = SRT_ETIMEOUT

\* C2, as stated: handle_result(x, -1) yields Err for every slot content, and
\* the error is the one the primary mapping assigns to the code in the slot.
C2_AlwaysErr ==
  \A t \in Threads :
    (result[t].op = "handle_result" /\ pending[t] = {-1})
    => /\ result[t].kind = "Err"
       /\ result[t].err = ErrnoMatch(lastError[t])

\* C2, amended: handle_result(x, -1) never yields Ok; when the slot holds a code
\* the primary mapping has an arm for, it yields Err with the ErrorCode of that
\* arm; for any other code it panics and returns nothing.
C2_ErrOfSlotOrPanic ==
  \A t \in Threads :
    (result[t].op = "handle_result" /\ pending[t] = {-1})
    => /\ result[t].kind # "Ok"
       /\ result[t].val = {}
       /\ lastError[t] \in SRT_ERRNO_Values
            => /\ result[t].kind = "Err"
               /\ result[t].err \in SrtError
               /\ result[t].err = ErrnoMatch(lastError[t])
       /\ lastError[t] \notin SRT_ERRNO_Values
            => /\ result[t].kind = "Panic"
               /\ pc[t] = "panicked"

\* C2 happens: Err(WrPerm) is returned for the write-permission code
C2_Witness ==
  \E t \in Threads :
    /\ result[t].op = "handle_result"
    /\ pending[t] = {-1}
    /\ lastError[t] = SRT_EWRPERM
    /\ result[t].kind = "Err"
    /\ result[t].err = Unit("WrPerm")

\* C3: handle_result with a return code other than 0 and -1 panics with a
\* diagnostic naming that code; it returns neither Ok nor Err and does not read
\* the last-error slot.
C3_OtherCodePanics ==
  \A t \in Threads :
    ( /\ result[t].op = "handle_result"
      /\ pending[t] # {}
      /\ pending[t] \cap {0, -1} = {} )
    => /\ result[t].kind = "Panic"
       /\ result[t].msg = "unrecognized return code {}"
       /\ result[t].code = pending[t]
       /\ ~result[t].readSlot
       /\ pc[t] = "panicked"

\* C3 happens: return code 7 has panicked the caller
C3_Witness ==
  \E t \in Threads :
    /\ result[t].op = "handle_result"
    /\ pending[t] = {7}
    /\ result[t].kind = "Panic"
    /\ result[t].code = {7}

C5_UnknownCodePanics ==
  \A t \in Threads :
    (result[t].readSlot /\ lastError[t] \notin SRT_ERRNO_Values)
    => /\ result[t].kind = "Panic"
       /\ result[t].err = NoError
       /\ result[t].msg = "unrecognized error no"
       /\ pc[t] = "panicked"

\* C5 happens: handle_result(x, -1) has panicked on a code above the table
C5_Witness ==
  \E t \in Threads :
    /\ result[t].op = "handle_result"
    /\ pending[t] = {-1}
    /\ lastError[t] = SRT_EPEERERR + Margin
    /\ result[t].kind = "Panic"

\* C6: the projection to io::ErrorKind is defined for every SrtError value and
\* is the table of the spec; ConnRej is ConnectionRefused for each reason.
C6_KindTable ==
  LET Refused == {"ConnSetup", "NoServer", "ConnRej", "SecFail", "ConnFail",
                  "RdvNoServ", "RdvUnbound"}
      Aborted == {"ConnLost"}
      NotConn == {"NoConn", "UnboundSock"}
      NotAvail == {"SockFail", "Closed", "InvSock", "InvPollId"}
      InUse == {"BoundSock", "ConnSock", "DupListen"}
      Invalid == {"InvRdOff", "InvWrOff", "InvOp", "InvParam", "NoListen",
                  "InvalMsgApi", "InvalBufferApi"}
      Denied == {"RdPerm", "WrPerm"}
      NotFound == {"File"}
      TimedOut == {"Timeout"}
      Block == {"AsyncFail", "AsyncSnd", "AsyncRcv"}
      Other == {"Unknown", "Success", "Resource", "Thread", "NoBuf", "SysObj",
                "LargeMsg", "PollEmpty", "Congest", "PeerErr"}
      Category(v) ==
        CASE v \in Refused -> "ConnectionRefused"
          [] v \in Aborted -> "ConnectionAborted"
          [] v \in NotConn -> "NotConnected"
          [] v \in NotAvail -> "AddrNotAvailable"
          [] v \in InUse -> "AddrInUse"
          [] v \in Invalid -> "InvalidInput"
          [] v \in Denied -> "PermissionDenied"
          [] v \in NotFound -> "NotFound"
          [] v \in TimedOut -> "TimedOut"
          [] v \in Block -> "WouldBlock"
          [] v \in Other -> "Other"
          [] OTHER -> "undefined"
  IN conv.fn = "io::Error::from"
       => /\ conv.kind = Category(conv.arg.tag)
          /\ conv.kind # "undefined"
          /\ conv.out = conv.arg

\* C6 happens: a rejection with reason Timeout has been projected
C6_Witness ==
  /\ conv.fn = "io::Error::from"
  /\ conv.arg = ConnRej("Timeout")
  /\ conv.kind = "ConnectionRefused"

\* C7: a ConnRej that the primary retrieval returns carries RejectReason
\* Unknown, whatever the reject-reason slot holds, and every other variant it
\* returns carries no payload.
C7_RejectReasonUnknown ==
  \A t \in Threads :
    result[t].kind \in {"Err", "SrtError"}
    => /\ result[t].err.tag = "ConnRej" => result[t].err.reason = "Unknown"
       /\ result[t].err.tag # "ConnRej" => result[t].err.reason = NoPayload

\* C7 happens: ConnRej(Unknown) is returned while the slot says bad secret
C7_Witness ==
  \E t \in Threads :
    /\ result[t].op = "handle_result"
    /\ result[t].kind = "Err"
    /\ result[t].err = ConnRej("Unknown")
    /\ rejectReason = SRT_REJ_BADSECRET

\* C8: the reject-reason mapping gives each of the 17 named codes a
\* RejectReason variant without panicking, and panics on every other code.
C8_RejectTable ==
  conv.fn = "SrtRejectReason::from"
  => /\ Cardinality(SRT_REJECT_REASON_Values) = 17
     /\ conv.num \subseteq SRT_REJECT_REASON_Values
          => /\ ~Panicked(conv.out)
             /\ conv.out.tag \in SrtRejectReason
     /\ ~(conv.num \subseteq SRT_REJECT_REASON_Values) => Panicked(conv.out)

\* C8 happens: the bad-secret code has been mapped
C8_Witness ==
  /\ conv.fn = "SrtRejectReason::from"
  /\ conv.num = {SRT_REJ_BADSECRET}
  /\ conv.out.tag = "BadSecret"

\* C9: a thread that holds return code -1 and retrieves the error with no
\* protocol call of its own in between obtains the ErrorCode of the code its
\* own failing call stored, whatever the other threads did meanwhile (for a
\* stored code outside the table, the panic of C5 instead of an ErrorCode).
C9_OwnError ==
  \A t \in Threads :
    (result[t].readSlot /\ pending[t] = {-1} /\ ~intervened[t])
    => /\ failCode[t] # {}
       /\ \A c \in failCode[t] :
            /\ c \in SRT_ERRNO_Values
                 => /\ result[t].kind = "Err"
                    /\ result[t].err = ErrnoMatch(c)
            /\ c \notin SRT_ERRNO_Values => result[t].kind = "Panic"

\* C9 happens: two threads hold the errors of their own, different, failures
C9_Witness ==
  \E t \in Threads, u \in Threads :
    /\ t # u
    /\ result[t].op = "handle_result" /\ result[u].op = "handle_result"
    /\ ~intervened[t] /\ ~intervened[u]
    /\ result[t].err = Unit("Timeout")
    /\ result[u].err = Unit("WrPerm")

\* the other half of C9: after an intervening protocol call of its own, a
\* thread can obtain an error that is not the one its failing call stored
C9_LostAfterInterveningCall ==
  \E t \in Threads :
    /\ result[t].op = "handle_result"
    /\ pending[t] = {-1}
    /\ intervened[t]
    /\ failCode[t] = {SRT_ETIMEOUT}
    /\ result[t].err = Unit("WrPerm")

\* C10: a retrieval leaves the last-error slots as they are, and all the
\* retrievals of a thread since its last protocol call returned the same.
C10_NonClearingRead ==
  [][\A t \in Threads :
       nreads'[t] = nreads[t] + 1
       => /\ lastError' = lastError
          /\ Cardinality(seen'[t]) = 1
          /\ seen[t] # {} => seen'[t] = seen[t]]_vars

\* C10 happens: two retrievals in a row have returned Timeout
C10_Witness ==
  \E t \in Threads :
    /\ nreads[t] >= 2
    /\ seen[t] = {[err |-> Unit("Timeout"), msg |-> ""]}
    /\ lastError[t] = SRT_ETIMEOUT

====
